---- MODULE Spec2Model ----
(***************************************************************************)
(* Model of src/cap.py: the paginated aggregation job.  One sequential     *)
(* coroutine (module import, main, with_retries, scrape_cap_points) whose  *)
(* only concurrency is the set of fetch_single_page tasks that one         *)
(* asyncio.gather call runs for a chunk.                                   *)
(***************************************************************************)
EXTENDS Integers, Sequences, FiniteSets, TLC

\* ------------------------------------------------------------------------
\* Program constants
MAX_RETRIES == 3
MAX_CONCURRENT == 6
BATCH_SIZE == 18
PAGE_ATTEMPTS == 2

\* Bounds of the model
MaxTotalPages == 19
MaxFaultyPages == 2
SmallJobPages == 2
MaxGatePages == 100
ScenarioPages == 100
ScenarioFailures == 11
MaxEntries == 3
OrderPages == 3
MaxRuns == 3
PreStepJobPages == 1

\* Python's None for a string-valued and for a number-valued slot (an
\* integer that no page total and no sum of page totals takes)
None == "<None>"
NoNumber == -1000000

\* ------------------------------------------------------------------------
\* Values

\* Exceptions are records: the message, and the two counts the
\* high-failure-rate message carries (0 for every other exception).
Error(msg) == [msg |-> msg, f |-> 0, T |-> 0]
NoError == Error(None)
HighFailureRate(f, T) == [msg |-> "High failure rate", f |-> f, T |-> T]
TypeError == Error("unsupported operand type(s) for +=: 'int' and 'NoneType'")

\* An exception whose __str__ raises, and the exception that str() of it
\* raises
BadStr == Error("<str() raises>")
StrFailed == Error("__str__ failed")
StrRaises(e) == e = BadStr

\* A BaseException that is no Exception: `except Exception` lets it pass
CancelledError == Error("CancelledError")
IsException(e) == e # CancelledError

\* What one awaited call produced: a value or a raised exception.
Returned(v) == [ok |-> TRUE, val |-> v, err |-> NoError]
Raised(e) == [ok |-> FALSE, val |-> NoNumber, err |-> e]
NoOutcome == Raised(NoError)

\* The sum of the 'caps' fields the endpoint serves on a page. Line 171
\* adds int() of every field with no check of its sign, so a page total
\* is any integer; the endpoint serves pages of all three signs: a
\* positive total on pages 1, 4, 7, ..., a negative total on pages
\* 2, 5, 8, ... and the total 0 on pages 3, 6, 9, ...
PageSum(page_number) ==
    CASE page_number % 3 = 1 -> page_number
      [] page_number % 3 = 2 -> 0 - page_number
      [] OTHER -> 0

Min(a, b) == IF a < b THEN a ELSE b

\* Sum of the page sums of a set of page numbers
RECURSIVE SumPages(_)
SumPages(S) ==
    IF S = {} THEN 0
    ELSE LET x == CHOOSE y \in S : TRUE IN PageSum(x) + SumPages(S \ {x})

Range(s) == {s[n] : n \in 1..Len(s)}

\* ------------------------------------------------------------------------
\* with_retries (cap.py 52-70, strata.py 52-70)

\* The frame of one with_retries call: the loop variable, last_exception,
\* where the loop stands, the value or exception it ends with, and a
\* count of the invocations it made and of the sleeps it took.
IdleFrame ==
    [status |-> "idle", attempt |-> 0, last_exception |-> NoError,
     out |-> NoOutcome, calls |-> 0, sleeps |-> 0]

\* `for attempt in range(MAX_RETRIES)`: first iteration, func about to run
with_retries_enter == [IdleFrame EXCEPT !.status = "calling"]

\* func(*args) is invoked in the try block
with_retries_invoke(fr) == [fr EXCEPT !.calls = @ + 1]

\* (variant: one more invocation than MAX_RETRIES)
with_retries_handle_ExtraAttempt(fr, r) ==
    IF r.ok
    THEN [fr EXCEPT !.status = "returned", !.out = r]
    ELSE IF ~IsException(r.err)
    THEN [fr EXCEPT !.status = "raised", !.out = r]
    ELSE IF StrRaises(r.err)
    THEN [fr EXCEPT !.last_exception = r.err, !.status = "raised",
                    !.out = Raised(StrFailed)]
    ELSE LET caught == [fr EXCEPT !.last_exception = r.err]
         IN IF fr.attempt < MAX_RETRIES
            THEN [caught EXCEPT !.status = "sleeping", !.sleeps = @ + 1]
            ELSE [caught EXCEPT !.status = "raised",
                                !.out = Raised(caught.last_exception)]

\* The invocation ended with outcome r: `return await func(...)`; or an
\* exception that `except Exception` does not catch leaves with_retries;
\* or the except clause: last_exception = e, then the print of str(e),
\* which leaves with_retries with the exception of str() when that raises,
\* then the sleep or the loop exit and `raise last_exception`.
with_retries_handle(fr, r) ==
    IF r.ok
    THEN [fr EXCEPT !.status = "returned", !.out = r]
    ELSE IF ~IsException(r.err)
    THEN [fr EXCEPT !.status = "raised", !.out = r]
    ELSE IF StrRaises(r.err)
    THEN [fr EXCEPT !.last_exception = r.err, !.status = "raised",
                    !.out = Raised(StrFailed)]
    ELSE LET caught == [fr EXCEPT !.last_exception = r.err]
         IN IF fr.attempt < MAX_RETRIES - 1
            THEN [caught EXCEPT !.status = "sleeping", !.sleeps = @ + 1]
            ELSE [caught EXCEPT !.status = "raised",
                                !.out = Raised(caught.last_exception)]

\* asyncio.sleep(RETRY_DELAY) is over: next iteration of the loop
with_retries_wake(fr) ==
    [fr EXCEPT !.status = "calling", !.attempt = @ + 1]

\* ------------------------------------------------------------------------
\* verify_proxy and get_total_pages (cap.py 98-130)

\* page.goto of the proxy check works, or raises an exception, or raises
\* one whose str() raises
ProxyKinds == {"ok", "transport", "badStr"}

verify_proxy(kind) ==
    CASE kind = "ok" -> Returned(0)
      [] kind = "badStr" -> Raised(BadStr)
      [] OTHER -> Raised(Error("proxy check failed"))

\* What the page-1 request can produce: a transport error, a page without
\* <pre>, an unparseable body, an envelope without pagination.total, or an
\* envelope whose pagination.total is a page count; or a transport error
\* whose str() raises.
DiscoveryKinds ==
    {"transport", "nopre", "badjson", "nototal", "total", "badStr"}

TotalChoices == {0, 1, SmallJobPages, 7, MaxTotalPages}

get_total_pages(kind, total) ==
    CASE kind = "transport" -> Raised(Error("page.goto failed"))
      [] kind = "badStr" -> Raised(BadStr)
      [] kind = "nopre" -> Raised(Error("No <pre> element found - API might be blocked or changed"))
      [] kind = "badjson" -> Raised(Error("JSONDecodeError"))
      [] kind = "nototal" -> Returned(1)
      [] OTHER -> Returned(total)

\* ------------------------------------------------------------------------
\* fetch_single_page (cap.py 142-180)

\* An awaited call of a page (goto, query_selector, inner_text) raises:
\* an exception with a message, one whose str() is empty (noMessage), or
\* one whose str() itself raises (badStr).
RaiseKinds == {"exception", "noMessage", "badStr"}

\* page_instance.goto (147-155) returns a response with status 200 or
\* with another status, or raises.
GotoKinds == {"status200", "http"} \cup RaiseKinds

\* page_instance.query_selector('pre') (158-163) returns the element or
\* None, or raises.
QueryKinds == {"pre", "nopre"} \cup RaiseKinds

\* pre_element.inner_text() and the decoding of the text (165-172):
\* inner_text raises; json.loads raises (badjson); the body has no
\* 'entries'; the sum over data['entries'] raises (badentries: 'entries'
\* is no list of records, or int() rejects a 'caps'); or the page total
\* is computed.
TextKinds == {"ok", "noentries", "badjson", "badentries"} \cup RaiseKinds

\* The ways one iteration of fetch_single_page can end
PageKinds ==
    (GotoKinds \cup QueryKinds \cup TextKinds) \ {"status200", "pre"}

\* The kinds other than the page being served
IsFault(kind) == kind \notin {"status200", "pre", "ok"}

\* str(e) of the exception that was caught at line 174
Str(kind) ==
    CASE kind = "exception" -> "Timeout 25000ms exceeded"
      [] kind = "badjson" -> "Expecting value: line 1 column 1 (char 0)"
      [] kind = "badentries" -> "'NoneType' object is not iterable"
      [] OTHER -> ""

\* An element of the list asyncio.gather returns: the 3-tuple
\* fetch_single_page returned, or the exception object that ended the task.
Result(page_number, page_total, error) ==
    [exc |-> FALSE, page |-> page_number, total |-> page_total, error |-> error]
ExceptionObject(page_number) ==
    [exc |-> TRUE, page |-> page_number, total |-> NoNumber, error |-> None]
NoResult == [exc |-> FALSE, page |-> 0, total |-> NoNumber, error |-> None]

\* One iteration of `for attempt in range(2)` on a request of the given
\* kind: "continue" (sleep 1s, next iteration), "return" or "raise".
Continue == [op |-> "continue", result |-> NoResult]
Return(res) == [op |-> "return", result |-> res]
fetch_single_page(page_number, attempt, kind) ==
    CASE kind = "http" ->
            IF attempt = 0 THEN Continue
            ELSE Return(Result(page_number, NoNumber, "HTTP 500"))
      [] kind = "nopre" ->
            IF attempt = 0 THEN Continue
            ELSE Return(Result(page_number, NoNumber, "No <pre> element found"))
      [] kind = "noentries" ->
            Return(Result(page_number, NoNumber, "No entries in response"))
      [] kind = "ok" ->
            Return(Result(page_number, PageSum(page_number), None))
      [] OTHER ->
            IF attempt = 0 THEN Continue
            ELSE IF kind = "badStr"
                 THEN [op |-> "raise", result |-> ExceptionObject(page_number)]
                 ELSE Return(Result(page_number, NoNumber, Str(kind)))

\* ------------------------------------------------------------------------
\* Decoding of a page body (cap.py 165-178)

\* The 'caps' field of a record of 'entries': absent, a JSON number
\* (zero, positive or negative), a string of digits, or something int()
\* rejects ("abc", null).
Caps(kind, val) == [kind |-> kind, val |-> val]
CapsValues ==
    {Caps("missing", 0), Caps("int", 0), Caps("int", 5), Caps("int", -3),
     Caps("digits", 7), Caps("bad", 0)}

\* int(entry.get('caps', 0))
int_caps(entry) ==
    CASE entry.kind = "missing" -> Returned(0)
      [] entry.kind = "bad" -> Raised(Error("invalid literal for int()"))
      [] OTHER -> Returned(entry.val)

\* sum(int(entry.get('caps', 0)) for entry in data['entries'])
RECURSIVE page_total(_)
page_total(entries) ==
    IF entries = << >> THEN Returned(0)
    ELSE LET first == int_caps(Head(entries))
             rest == page_total(Tail(entries))
         IN IF ~first.ok THEN first
            ELSE IF ~rest.ok THEN rest
            ELSE Returned(first.val + rest.val)

\* A parsed body: whether it has the 'entries' key, and the records
Body(has_entries, entries) ==
    [has_entries |-> has_entries, entries |-> entries]
EmptyBody == Body(FALSE, << >>)
Bodies ==
    {EmptyBody} \cup
    {Body(TRUE, e) : e \in UNION {[1..n -> CapsValues] : n \in 0..MaxEntries}}

\* One iteration of `for attempt in range(2)` on a request that is
\* answered with status 200 and the given body inside <pre>.
decode(page_number, attempt, b) ==
    IF ~b.has_entries
    THEN Return(Result(page_number, NoNumber, "No entries in response"))
    ELSE LET t == page_total(b.entries)
         IN IF t.ok THEN Return(Result(page_number, t.val, None))
            ELSE IF attempt = 0 THEN Continue
            ELSE Return(Result(page_number, NoNumber, t.err.msg))

\* ------------------------------------------------------------------------
\* The batch plan and the fold (cap.py 183-211)

\* for batch_start in range(1, total_pages + 1, BATCH_SIZE)
BatchStarts(total_pages) ==
    {b \in 1..total_pages : (b - 1) % BATCH_SIZE = 0}

\* (variant: the last batch not cut at total_pages)
batch_end_Unclamped(batch_start, total_pages) ==
    batch_start + BATCH_SIZE - 1

batch_end(batch_start, total_pages) ==
    Min(batch_start + BATCH_SIZE - 1, total_pages)

\* batch_pages = list(range(batch_start, batch_end + 1))
batch_pages(batch_start, total_pages) ==
    [n \in 1..(batch_end(batch_start, total_pages) - batch_start + 1)
        |-> batch_start + n - 1]

\* (variant: a pool one page instance short of the chunk size)
WorkerCount_Short(pages) == Min(MAX_CONCURRENT - 1, Len(pages))

\* (variant: one page instance for every page of the batch)
WorkerCount_PerPage(pages) == Len(pages)

\* number of page instances opened for a batch
WorkerCount(pages) == Min(MAX_CONCURRENT, Len(pages))

\* chunk = batch_pages[i:i + MAX_CONCURRENT]
Chunk(pages, i) ==
    [n \in 1..(Min(i + MAX_CONCURRENT, Len(pages)) - i) |-> pages[i + n]]

\* for i in range(0, len(batch_pages), MAX_CONCURRENT)
ChunkStarts(pages) ==
    {i \in 0..(Len(pages) - 1) : i % MAX_CONCURRENT = 0}

\* page_instances[j % len(page_instances)], j counted from 0
Assign(j, page_instances) ==
    page_instances[(j % Len(page_instances)) + 1]

\* Python truth of the error slot of a result tuple
Truthy(error) == error # None /\ error # ""

\* (variant: `grand_total = page_total` in place of `+=`)
FoldResult_Assign(rs, result) ==
    IF result.exc THEN rs
    ELSE IF Truthy(result.error)
    THEN [rs EXCEPT !.failed_pages = Append(@, result.page)]
    ELSE IF result.total = NoNumber
    THEN [rs EXCEPT !.raised = TRUE]
    ELSE [rs EXCEPT !.grand_total = result.total,
                    !.processed_pages = @ + 1]

\* (variant: processed_pages is not incremented)
FoldResult_NoCount(rs, result) ==
    IF result.exc THEN rs
    ELSE IF Truthy(result.error)
    THEN [rs EXCEPT !.failed_pages = Append(@, result.page)]
    ELSE IF result.total = NoNumber
    THEN [rs EXCEPT !.raised = TRUE]
    ELSE [rs EXCEPT !.grand_total = @ + result.total]

\* (variant: a failed page is put at the front of failed_pages)
FoldResult_Prepend(rs, result) ==
    IF result.exc THEN rs
    ELSE IF Truthy(result.error)
    THEN [rs EXCEPT !.failed_pages = <<result.page>> \o @]
    ELSE IF result.total = NoNumber
    THEN [rs EXCEPT !.raised = TRUE]
    ELSE [rs EXCEPT !.grand_total = @ + result.total,
                    !.processed_pages = @ + 1]

\* One iteration of `for result in results` on the run state
\* rs = [grand_total, processed_pages, failed_pages, raised].
FoldResult(rs, result) ==
    IF result.exc THEN rs
    ELSE IF Truthy(result.error)
    THEN [rs EXCEPT !.failed_pages = Append(@, result.page)]
    ELSE IF result.total = NoNumber
    THEN [rs EXCEPT !.raised = TRUE]
    ELSE [rs EXCEPT !.grand_total = @ + result.total,
                    !.processed_pages = @ + 1]

\* ------------------------------------------------------------------------
\* The failure-rate gate (cap.py 220-230)

\* failure_rate = len(failed_pages) / total_pages, kept as the exact
\* quotient of the two integers
failure_rate(failed_count, total_pages) ==
    [num |-> failed_count, den |-> total_pages]

\* (variant: the threshold taken inclusively, failure_rate >= 0.1)
MoreThanTenPercent_Inclusive(q) == 10 * q.num >= q.den

\* (variant: the threshold at 11 percent)
MoreThanTenPercent_Eleven(q) == 100 * q.num > 11 * q.den

\* failure_rate > 0.1, for a quotient with a positive denominator
MoreThanTenPercent(q) == 10 * q.num > q.den

\* `if failed_pages:` ... raise, otherwise `return grand_total`
Gate(grand_total, failed_pages, total_pages) ==
    IF failed_pages # << >>
       /\ MoreThanTenPercent(failure_rate(Len(failed_pages), total_pages))
    THEN Raised(HighFailureRate(Len(failed_pages), total_pages))
    ELSE Returned(grand_total)

\* ------------------------------------------------------------------------
\* Bounds on what the environment does in one job

\* Failures of the proxy check and of the discovery request are explored
\* in the jobs whose endpoint has at most PreStepJobPages pages.
PreStepFaultsExplored(total) == total <= PreStepJobPages

\* How many pages of a job may get a first request that is not "ok": a
\* single page in the jobs of more than SmallJobPages pages, whose chunks
\* of MAX_CONCURRENT interleaved tasks are the bulk of the state space.
FaultyPageBudget(total) ==
    IF total > SmallJobPages THEN 1 ELSE MaxFaultyPages

\* The pages that may get such a request: any page of a job of at most
\* SmallJobPages pages; in a larger job the first page of its last batch.
MayFail(total, page) ==
    \/ total <= SmallJobPages
    \/ page = 1 + BATCH_SIZE * ((total - 1) \div BATCH_SIZE)

\* ------------------------------------------------------------------------
\* State

VARIABLES
    pc,               \* where the main coroutine stands
    endpoint_total,   \* pagination.total of the endpoint's envelopes
    sheet,            \* the "Cap" worksheet: columns A and B, row by row
    row_idx,          \* module global row_idx (0 before it is assigned)
    wr,               \* the with_retries frames, by call site
    context_open,     \* the browser context of the current attempt is open
    total_pages,      \* locals of scrape_cap_points ...
    grand_total,
    processed_pages,
    failed_pages,
    batch_start,
    chunk_i,          \* loop variable i of the chunk loop
    page_instances,   \* handles of the current batch's worker pages
    live_pages,       \* worker pages opened and not closed
    pages_opened,     \* context.new_page() calls made for workers
    tasks,            \* the coroutines handed to asyncio.gather
    results,          \* the list asyncio.gather returned
    fold_k,           \* position of `for result in results`
    ret,              \* value or exception scrape_cap_points is ending with
    faulty,           \* pages of this job with a request that was not "ok"
    invoked,          \* per page: fetch_single_page calls in this attempt
    folded_ok,        \* per page: times its total was added to grand_total
    success_pages,    \* pages whose task returned a page total
    skipped,          \* pages whose result the fold skipped as an exception
    recovered,        \* pages that failed once and succeeded on the retry
    second_failed,    \* some page's second request was not "ok"
    call_log,         \* outcomes of the invocations a with_retries made
    body,             \* the JSON body that a page's requests are served
    completion,       \* pages of failed fetches, in the order they finished
    job_log           \* how the earlier runs of the job on this date ended

locals == <<total_pages, grand_total, processed_pages, failed_pages,
            batch_start, chunk_i, page_instances, pages_opened, tasks,
            results, fold_k>>
history == <<faulty, invoked, folded_ok, success_pages, skipped, recovered,
             second_failed, call_log, job_log, body, completion>>
vars == <<pc, endpoint_total, sheet, row_idx, wr, context_open, live_pages, ret, locals,
          history>>

Sites == {"scrape", "verify", "discover"}

\* A sheet row: the date key of column A and the value of column B
\* (NoNumber for an empty cell).
Row(a, b) == [a |-> a, b |-> b]
InitialSheets ==
    { << >>, << Row("today", NoNumber) >>, << Row("today", 5) >> }

\* Nothing of main() has run yet
InitRest ==
    /\ row_idx = 0
    /\ context_open = FALSE
    /\ total_pages = NoNumber
    /\ grand_total = 0
    /\ processed_pages = 0
    /\ failed_pages = << >>
    /\ batch_start = 0
    /\ chunk_i = 0
    /\ page_instances = << >>
    /\ live_pages = {}
    /\ pages_opened = 0
    /\ tasks = << >>
    /\ results = << >>
    /\ fold_k = 0
    /\ ret = NoOutcome
    /\ faulty = 0
    /\ invoked = << >>
    /\ folded_ok = << >>
    /\ success_pages = {}
    /\ skipped = {}
    /\ recovered = 0
    /\ second_failed = FALSE
    /\ call_log = << >>
    /\ completion = << >>
    /\ job_log = << >>

Init ==
    /\ pc = "import"
    /\ endpoint_total \in TotalChoices
    /\ sheet \in InitialSheets
    /\ wr = [s \in Sites |-> IdleFrame]
    /\ body = EmptyBody
    /\ InitRest

\* ------------------------------------------------------------------------
\* Module level (cap.py 34-49, 249)

\* (variant: a row is appended whether or not today's row is there)
ImportModule_AlwaysAppend ==
    /\ pc = "import"
    /\ row_idx' = Len(sheet) + 1
    /\ sheet' = Append(sheet, Row("today", NoNumber))
    /\ pc' = "outer"
    /\ wr' = [wr EXCEPT !["scrape"] = with_retries_enter]
    /\ UNCHANGED <<endpoint_total, context_open, live_pages, ret, locals, history>>

\* (variant: the job runs although today's value is there)
ImportModule_NoExit ==
    /\ pc = "import"
    /\ LET found == {n \in 1..Len(sheet) : sheet[n].a = "today"}
           idx == IF found # {}
                  THEN CHOOSE n \in found : \A m \in found : n <= m
                  ELSE Len(sheet) + 1
       IN /\ row_idx' = idx
          /\ sheet' = IF found # {} THEN sheet
                      ELSE Append(sheet, Row("today", NoNumber))
    /\ pc' = "outer"
    /\ wr' = [wr EXCEPT !["scrape"] = with_retries_enter]
    /\ UNCHANGED <<endpoint_total, context_open, live_pages, ret, locals, history>>

\* Find or create today's row, then run main(), which calls
\* with_retries(scrape_cap_points); exit() when today's value is there.
ImportModule ==
    /\ pc = "import"
    /\ LET found == {n \in 1..Len(sheet) : sheet[n].a = "today"}
           idx == IF found # {}
                  THEN CHOOSE n \in found : \A m \in found : n <= m
                  ELSE Len(sheet) + 1
       IN /\ row_idx' = idx
          /\ IF found # {}
             THEN /\ sheet' = sheet
                  /\ IF sheet[idx].b # NoNumber
                     THEN pc' = "exited" /\ wr' = wr
                     ELSE /\ pc' = "outer"
                          /\ wr' = [wr EXCEPT !["scrape"] = with_retries_enter]
             ELSE /\ sheet' = Append(sheet, Row("today", NoNumber))
                  /\ pc' = "outer"
                  /\ wr' = [wr EXCEPT !["scrape"] = with_retries_enter]
    /\ UNCHANGED <<endpoint_total, context_open, live_pages, ret, locals, history>>

\* ------------------------------------------------------------------------
\* scrape_cap_points (cap.py 73-233)

\* (variant: the totals of the previous attempt are kept)
StartAttempt_KeepState ==
    /\ pc = "outer"
    /\ wr["scrape"].status = "calling"
    /\ wr' = [wr EXCEPT !["scrape"] = with_retries_invoke(@),
                        !["verify"] = with_retries_enter]
    /\ context_open' = TRUE
    /\ pc' = "verify"
    /\ total_pages' = NoNumber
    /\ batch_start' = 0
    /\ chunk_i' = 0
    /\ page_instances' = << >>
    /\ pages_opened' = 0
    /\ tasks' = << >>
    /\ results' = << >>
    /\ fold_k' = 0
    /\ ret' = NoOutcome
    /\ invoked' = << >>
    /\ folded_ok' = << >>
    /\ success_pages' = {}
    /\ skipped' = {}
    /\ recovered' = 0
    /\ second_failed' = FALSE
    /\ completion' = << >>
    /\ UNCHANGED <<call_log, job_log, body, grand_total, processed_pages,
                   failed_pages, endpoint_total, sheet, row_idx, live_pages, faulty>>

\* with_retries invokes scrape_cap_points: the browser context is
\* launched, and with_retries(verify_proxy) is entered.
StartAttempt ==
    /\ pc = "outer"
    /\ wr["scrape"].status = "calling"
    /\ wr' = [wr EXCEPT !["scrape"] = with_retries_invoke(@),
                        !["verify"] = with_retries_enter]
    /\ context_open' = TRUE
    /\ pc' = "verify"
    /\ total_pages' = NoNumber
    /\ grand_total' = 0
    /\ processed_pages' = 0
    /\ failed_pages' = << >>
    /\ batch_start' = 0
    /\ chunk_i' = 0
    /\ page_instances' = << >>
    /\ pages_opened' = 0
    /\ tasks' = << >>
    /\ results' = << >>
    /\ fold_k' = 0
    /\ ret' = NoOutcome
    /\ invoked' = << >>
    /\ folded_ok' = << >>
    /\ success_pages' = {}
    /\ skipped' = {}
    /\ recovered' = 0
    /\ second_failed' = FALSE
    /\ completion' = << >>
    /\ UNCHANGED <<call_log, job_log, body, endpoint_total, sheet, row_idx, live_pages, faulty>>

\* One invocation of verify_proxy by its with_retries
VerifyProxy ==
    /\ pc = "verify"
    /\ wr["verify"].status = "calling"
    /\ \E kind \in ProxyKinds :
          /\ kind # "ok" => PreStepFaultsExplored(endpoint_total)
          /\ wr' = [wr EXCEPT !["verify"] =
                       with_retries_handle(with_retries_invoke(@),
                                           verify_proxy(kind))]
    /\ UNCHANGED <<endpoint_total, pc, sheet, row_idx, context_open,
                   live_pages, ret, locals, history>>

\* One invocation of get_total_pages by its with_retries
GetTotalPages ==
    /\ pc = "discover"
    /\ wr["discover"].status = "calling"
    /\ \E kind \in DiscoveryKinds :
          /\ kind \notin {"nototal", "total"}
                => PreStepFaultsExplored(endpoint_total)
          /\ wr' = [wr EXCEPT !["discover"] =
                       with_retries_handle(with_retries_invoke(@),
                           get_total_pages(kind, endpoint_total))]
    /\ UNCHANGED <<endpoint_total, pc, sheet, row_idx, context_open,
                   live_pages, ret, locals, history>>

\* asyncio.sleep(RETRY_DELAY) of a with_retries is over
RetrySleepOver ==
    /\ \E s \in Sites :
          /\ wr[s].status = "sleeping"
          /\ wr' = [wr EXCEPT ![s] = with_retries_wake(@)]
    /\ UNCHANGED <<endpoint_total, pc, sheet, row_idx, context_open, live_pages, ret,
                   locals, history>>

\* with_retries(verify_proxy) returned: with_retries(get_total_pages)
VerifyReturns ==
    /\ pc = "verify"
    /\ wr["verify"].status = "returned"
    /\ wr' = [wr EXCEPT !["verify"] = IdleFrame,
                        !["discover"] = with_retries_enter]
    /\ pc' = "discover"
    /\ UNCHANGED <<endpoint_total, sheet, row_idx, context_open, live_pages, ret, locals,
                   history>>

\* (variant: a failed discovery falls back to one page and goes on)
InnerRaises_Fallback ==
    /\ \E s \in {"verify", "discover"} :
          /\ pc = s
          /\ wr[s].status = "raised"
          /\ wr' = [wr EXCEPT ![s] = IdleFrame]
          /\ IF s = "verify"
             THEN /\ ret' = wr[s].out
                  /\ pc' = "finally"
                  /\ UNCHANGED <<total_pages, batch_start, invoked, folded_ok>>
             ELSE /\ ret' = ret
                  /\ pc' = "batch"
                  /\ total_pages' = 1
                  /\ batch_start' = 1
                  /\ invoked' = <<0>>
                  /\ folded_ok' = <<0>>
    /\ UNCHANGED <<endpoint_total, sheet, row_idx, context_open, live_pages,
                   grand_total, processed_pages, failed_pages, chunk_i,
                   page_instances, pages_opened, tasks, results, fold_k,
                   faulty, success_pages, skipped, recovered, second_failed,
                   call_log, job_log, body, completion>>

\* with_retries(verify_proxy) or with_retries(get_total_pages) raised:
\* the exception leaves the try block of scrape_cap_points.
InnerRaises ==
    /\ \E s \in {"verify", "discover"} :
          /\ pc = s
          /\ wr[s].status = "raised"
          /\ ret' = wr[s].out
          /\ wr' = [wr EXCEPT ![s] = IdleFrame]
    /\ pc' = "finally"
    /\ UNCHANGED <<endpoint_total, sheet, row_idx, context_open, live_pages, locals,
                   history>>

\* total_pages = await with_retries(get_total_pages); the run state is
\* initialised and the batch loop is reached.
DiscoverReturns ==
    /\ pc = "discover"
    /\ wr["discover"].status = "returned"
    /\ total_pages' = wr["discover"].out.val
    /\ wr' = [wr EXCEPT !["discover"] = IdleFrame]
    /\ grand_total' = 0
    /\ processed_pages' = 0
    /\ failed_pages' = << >>
    /\ batch_start' = 1
    /\ invoked' = [p \in 1..total_pages' |-> 0]
    /\ folded_ok' = [p \in 1..total_pages' |-> 0]
    /\ pc' = "batch"
    /\ UNCHANGED <<call_log, job_log, body, completion, endpoint_total, sheet, row_idx, context_open, live_pages, ret, chunk_i,
                   page_instances, pages_opened, tasks, results, fold_k,
                   faulty, success_pages, skipped, recovered, second_failed>>

\* A coroutine fetch_single_page(page_num, page_instance) inside gather:
\* its arguments, its loop variable, the await it is suspended at (phase:
\* "goto" at line 147, "settle" in the sleep(0.5) of line 157,
\* "query_selector" at line 158, "inner_text" at line 165, "delay" in the
\* sleep(1) before the second attempt), and what it did so far (requests
\* counts the calls of goto that are over).
Task(page_number, page_instance) ==
    [page |-> page_number, worker |-> page_instance, attempt |-> 0,
     status |-> "running", phase |-> "goto",
     result |-> NoResult, requests |-> 0, delays |-> 0]

\* The iteration ends with the given kind: sleep(1) is entered (the other
\* iteration follows), or the coroutine returns or raises.
TaskOutcome(t, kind) ==
    LET o == fetch_single_page(t.page, t.attempt, kind)
    IN IF o.op = "continue"
       THEN [t EXCEPT !.phase = "delay", !.delays = @ + 1]
       ELSE [t EXCEPT !.status = "done", !.phase = "over",
                      !.result = o.result]

\* page_instance.goto of the task returns a response or raises: with
\* status 200 the task goes on to sleep(0.5); otherwise the iteration ends.
TaskGoto(t, kind) ==
    LET asked == [t EXCEPT !.requests = @ + 1]
    IN IF kind = "status200"
       THEN [asked EXCEPT !.phase = "settle"]
       ELSE TaskOutcome(asked, kind)

\* sleep(0.5) is over: query_selector('pre') is called
TaskSettled(t) == [t EXCEPT !.phase = "query_selector"]

\* query_selector returns or raises: with the element the task goes on to
\* inner_text; otherwise the iteration ends.
TaskQuery(t, kind) ==
    IF kind = "pre"
    THEN [t EXCEPT !.phase = "inner_text"]
    ELSE TaskOutcome(t, kind)

\* inner_text returns or raises, and the text is decoded: the iteration
\* ends.
TaskText(t, kind) == TaskOutcome(t, kind)

\* sleep(1) is over: `continue`, and goto of the next iteration
TaskRetry(t) == [t EXCEPT !.attempt = @ + 1, !.phase = "goto"]

\* Task n of the gather is suspended at the given await
Awaiting(n, phase) ==
    tasks[n].status = "running" /\ tasks[n].phase = phase

\* A first request of the task's page may end with the given kind
FaultAllowed(t, kind) ==
    IsFault(kind) /\ t.attempt = 0 =>
        /\ faulty < FaultyPageBudget(total_pages)
        /\ MayFail(total_pages, t.page)

\* The awaited call of task n is over with the given kind and leaves the
\* task as `new`; what the job's pages did is recorded.
Advance(n, new, kind) ==
    /\ tasks' = [tasks EXCEPT ![n] = new]
    /\ faulty' = IF IsFault(kind) /\ tasks[n].attempt = 0
                  THEN faulty + 1 ELSE faulty
    /\ success_pages' =
          IF new.status = "done" /\ ~new.result.exc
             /\ new.result.total # NoNumber
          THEN success_pages \cup {new.page} ELSE success_pages
    /\ recovered' = IF kind = "ok" /\ tasks[n].attempt = 1
                     THEN recovered + 1 ELSE recovered
    /\ second_failed' =
          (second_failed \/ (IsFault(kind) /\ tasks[n].attempt = 1))

\* What a step of a task leaves alone
TaskStepUnchanged ==
    UNCHANGED <<endpoint_total, pc, sheet, row_idx, wr, context_open,
                live_pages, ret, total_pages, grand_total, processed_pages,
                failed_pages, batch_start, chunk_i, page_instances,
                pages_opened, results, fold_k, invoked, folded_ok, skipped,
                call_log, job_log, body>>

\* (variant: the worker pages are opened while discovery is still running)
StartBatch_BeforeDiscovery ==
    /\ pc = "discover"
    /\ pages_opened = 0
    /\ page_instances' = [k \in 1..MAX_CONCURRENT |-> k]
    /\ pages_opened' = MAX_CONCURRENT
    /\ live_pages' = live_pages \cup (1..MAX_CONCURRENT)
    /\ UNCHANGED <<endpoint_total, pc, sheet, row_idx, wr, context_open, ret,
                   total_pages, grand_total, processed_pages, failed_pages,
                   batch_start, chunk_i, tasks, results, fold_k, history>>

\* Loop head of the batch loop with a batch left: batch_pages is computed
\* and the worker pages are opened.
StartBatch ==
    /\ pc = "batch"
    /\ batch_start <= total_pages
    /\ LET n == WorkerCount(batch_pages(batch_start, total_pages))
       IN /\ page_instances' = [k \in 1..n |-> pages_opened + k]
          /\ pages_opened' = pages_opened + n
          /\ live_pages' = live_pages \cup ((pages_opened + 1)..(pages_opened + n))
    /\ chunk_i' = 0
    /\ pc' = "chunk"
    /\ UNCHANGED <<endpoint_total, sheet, row_idx, wr, context_open, ret, total_pages,
                   grand_total, processed_pages, failed_pages, batch_start,
                   tasks, results, fold_k, history>>

\* Loop head of the chunk loop with a chunk left: the tasks are created,
\* round-robin over the worker pages, and handed to asyncio.gather.
DispatchChunk ==
    /\ pc = "chunk"
    /\ chunk_i < Len(batch_pages(batch_start, total_pages))
    /\ LET chunk == Chunk(batch_pages(batch_start, total_pages), chunk_i)
       IN /\ tasks' = [n \in 1..Len(chunk) |->
                          Task(chunk[n], Assign(n - 1, page_instances))]
          /\ invoked' = [p \in DOMAIN invoked |->
                          IF p \in Range(chunk) THEN invoked[p] + 1
                          ELSE invoked[p]]
    /\ pc' = "gather"
    /\ UNCHANGED <<call_log, job_log, body, completion, endpoint_total, sheet, row_idx, wr, context_open, live_pages, ret,
                   total_pages, grand_total, processed_pages, failed_pages,
                   batch_start, chunk_i, page_instances, pages_opened,
                   results, fold_k, faulty, folded_ok, success_pages,
                   skipped, recovered, second_failed>>

\* page_instance.goto of one task returns or raises, in any order among
\* the tasks of the chunk.
PageRequest ==
    /\ pc = "gather"
    /\ \E n \in 1..Len(tasks), kind \in GotoKinds :
          /\ Awaiting(n, "goto")
          /\ FaultAllowed(tasks[n], kind)
          /\ Advance(n, TaskGoto(tasks[n], kind), kind)
    /\ completion' = completion
    /\ TaskStepUnchanged

\* The sleep(0.5) of one task is over
PageSettled ==
    /\ pc = "gather"
    /\ \E n \in 1..Len(tasks) :
          /\ Awaiting(n, "settle")
          /\ tasks' = [tasks EXCEPT ![n] = TaskSettled(@)]
    /\ UNCHANGED <<endpoint_total, pc, sheet, row_idx, wr, context_open,
                   live_pages, ret, total_pages, grand_total,
                   processed_pages, failed_pages, batch_start, chunk_i,
                   page_instances, pages_opened, results, fold_k, history>>

\* query_selector('pre') of one task returns or raises
PageQuery ==
    /\ pc = "gather"
    /\ \E n \in 1..Len(tasks), kind \in QueryKinds :
          /\ Awaiting(n, "query_selector")
          /\ FaultAllowed(tasks[n], kind)
          /\ Advance(n, TaskQuery(tasks[n], kind), kind)
    /\ completion' = completion
    /\ TaskStepUnchanged

\* inner_text() of one task returns or raises, and the task decodes the
\* text up to its return or to the except clause
PageText ==
    /\ pc = "gather"
    /\ \E n \in 1..Len(tasks), kind \in TextKinds :
          /\ Awaiting(n, "inner_text")
          /\ FaultAllowed(tasks[n], kind)
          /\ Advance(n, TaskText(tasks[n], kind), kind)
    /\ completion' = completion
    /\ TaskStepUnchanged

\* The sleep(1) of one task is over: its second request goes out
PageDelayOver ==
    /\ pc = "gather"
    /\ \E n \in 1..Len(tasks) :
          /\ Awaiting(n, "delay")
          /\ tasks' = [tasks EXCEPT ![n] = TaskRetry(@)]
    /\ UNCHANGED <<endpoint_total, pc, sheet, row_idx, wr, context_open,
                   live_pages, ret, total_pages, grand_total,
                   processed_pages, failed_pages, batch_start, chunk_i,
                   page_instances, pages_opened, results, fold_k, history>>

\* query_selector('pre') of one task returns the element
PageFound ==
    /\ pc = "gather"
    /\ \E n \in 1..Len(tasks) :
          /\ Awaiting(n, "query_selector")
          /\ Advance(n, TaskQuery(tasks[n], "pre"), "pre")
    /\ completion' = completion
    /\ TaskStepUnchanged

\* inner_text() of one task returns a body that decodes to the page total
PageDecoded ==
    /\ pc = "gather"
    /\ \E n \in 1..Len(tasks) :
          /\ Awaiting(n, "inner_text")
          /\ Advance(n, TaskText(tasks[n], "ok"), "ok")
    /\ completion' = completion
    /\ TaskStepUnchanged

\* (variant: the wait ends as soon as one task is done)
GatherReturns_FirstCompleted ==
    /\ pc = "gather"
    /\ \E n \in 1..Len(tasks) : tasks[n].status = "done"
    /\ LET done == SelectSeq(tasks, LAMBDA t : t.status = "done")
       IN results' = [n \in 1..Len(done) |-> done[n].result]
    /\ fold_k' = 1
    /\ pc' = "fold"
    /\ UNCHANGED <<endpoint_total, sheet, row_idx, wr, context_open, live_pages, ret,
                   total_pages, grand_total, processed_pages, failed_pages,
                   batch_start, chunk_i, page_instances, pages_opened,
                   tasks, history>>

\* Every task is done: gather returns their results in task order.
GatherReturns ==
    /\ pc = "gather"
    /\ \A n \in 1..Len(tasks) : tasks[n].status = "done"
    /\ results' = [n \in 1..Len(tasks) |-> tasks[n].result]
    /\ tasks' = << >>
    /\ fold_k' = 1
    /\ pc' = "fold"
    /\ UNCHANGED <<endpoint_total, sheet, row_idx, wr, context_open, live_pages, ret,
                   total_pages, grand_total, processed_pages, failed_pages,
                   batch_start, chunk_i, page_instances, pages_opened,
                   history>>

\* (variant: the failure rate is tested after every folded result)
FoldOne_EarlyGate ==
    /\ pc = "fold"
    /\ fold_k <= Len(results)
    /\ LET r == results[fold_k]
           rs == FoldResult([grand_total |-> grand_total,
                             processed_pages |-> processed_pages,
                             failed_pages |-> failed_pages,
                             raised |-> FALSE], r)
           g == Gate(rs.grand_total, rs.failed_pages, total_pages)
       IN /\ grand_total' = rs.grand_total
          /\ processed_pages' = rs.processed_pages
          /\ failed_pages' = rs.failed_pages
          /\ IF rs.raised \/ ~g.ok
             THEN /\ ret' = IF rs.raised THEN Raised(TypeError) ELSE g
                  /\ pc' = "finally"
                  /\ fold_k' = fold_k
             ELSE /\ ret' = ret
                  /\ pc' = pc
                  /\ fold_k' = fold_k + 1
          /\ folded_ok' = IF rs.grand_total # grand_total
                             \/ rs.processed_pages # processed_pages
                          THEN [folded_ok EXCEPT ![r.page] = @ + 1]
                          ELSE folded_ok
          /\ skipped' = IF r.exc THEN skipped \cup {r.page} ELSE skipped
    /\ UNCHANGED <<call_log, job_log, body, completion, endpoint_total, sheet, row_idx, wr, context_open, live_pages,
                   total_pages, batch_start, chunk_i, page_instances,
                   pages_opened, tasks, results, faulty,
                   invoked,
                   success_pages, recovered, second_failed>>

\* One iteration of `for result in results`; the TypeError of
\* `grand_total += None` leaves the batch loop and the try block.
FoldOne ==
    /\ pc = "fold"
    /\ fold_k <= Len(results)
    /\ LET r == results[fold_k]
           rs == FoldResult([grand_total |-> grand_total,
                             processed_pages |-> processed_pages,
                             failed_pages |-> failed_pages,
                             raised |-> FALSE], r)
       IN /\ grand_total' = rs.grand_total
          /\ processed_pages' = rs.processed_pages
          /\ failed_pages' = rs.failed_pages
          /\ IF rs.raised
             THEN /\ ret' = Raised(TypeError)
                  /\ pc' = "finally"
                  /\ fold_k' = fold_k
             ELSE /\ ret' = ret
                  /\ pc' = pc
                  /\ fold_k' = fold_k + 1
          /\ folded_ok' = IF rs.grand_total # grand_total
                             \/ rs.processed_pages # processed_pages
                          THEN [folded_ok EXCEPT ![r.page] = @ + 1]
                          ELSE folded_ok
          /\ skipped' = IF r.exc THEN skipped \cup {r.page} ELSE skipped
    /\ UNCHANGED <<call_log, job_log, body, completion, endpoint_total, sheet, row_idx, wr, context_open, live_pages,
                   total_pages, batch_start, chunk_i, page_instances,
                   pages_opened, tasks, results, faulty,
                   invoked,
                   success_pages, recovered, second_failed>>

\* The results of the chunk are folded: next iteration of the chunk loop.
NextChunk ==
    /\ pc = "fold"
    /\ fold_k > Len(results)
    /\ chunk_i' = chunk_i + MAX_CONCURRENT
    /\ results' = << >>
    /\ fold_k' = 0
    /\ pc' = "chunk"
    /\ UNCHANGED <<endpoint_total, sheet, row_idx, wr, context_open, live_pages, ret,
                   total_pages, grand_total, processed_pages, failed_pages,
                   batch_start, page_instances, pages_opened, tasks,
                   history>>

\* (variant: the worker pages of a finished batch are left open)
CloseWorkers_LeaveOpen ==
    /\ pc = "chunk"
    /\ chunk_i >= Len(batch_pages(batch_start, total_pages))
    /\ batch_start' = batch_start + BATCH_SIZE
    /\ pc' = "batch"
    /\ UNCHANGED <<endpoint_total, sheet, row_idx, wr, context_open, ret, total_pages,
                   grand_total, processed_pages, failed_pages, chunk_i,
                   page_instances, pages_opened, tasks, results, fold_k,
                   live_pages, history>>

\* The chunk loop is over: the worker pages of the batch are closed and
\* the batch loop goes to its next iteration.
CloseWorkers ==
    /\ pc = "chunk"
    /\ chunk_i >= Len(batch_pages(batch_start, total_pages))
    /\ live_pages' = live_pages \ Range(page_instances)
    /\ batch_start' = batch_start + BATCH_SIZE
    /\ pc' = "batch"
    /\ UNCHANGED <<endpoint_total, sheet, row_idx, wr, context_open, ret, total_pages,
                   grand_total, processed_pages, failed_pages, chunk_i,
                   page_instances, pages_opened, tasks, results, fold_k,
                   history>>

\* The batch loop is over: the gate is reached.
EndBatches ==
    /\ pc = "batch"
    /\ batch_start > total_pages
    /\ pc' = "gate"
    /\ UNCHANGED <<endpoint_total, sheet, row_idx, wr, context_open, live_pages, ret,
                   locals, history>>

\* The gate: raise on a high failure rate, else return grand_total.
GateStep ==
    /\ pc = "gate"
    /\ ret' = Gate(grand_total, failed_pages, total_pages)
    /\ pc' = "finally"
    /\ UNCHANGED <<endpoint_total, sheet, row_idx, wr, context_open, live_pages, locals,
                   history>>

\* (variant: the context is closed only when the attempt returns a value)
Finally_OnSuccessOnly ==
    /\ pc = "finally"
    /\ context_open' = IF ret.ok THEN FALSE ELSE context_open
    /\ live_pages' = IF ret.ok THEN {} ELSE live_pages
    /\ wr' = [wr EXCEPT !["scrape"] = with_retries_handle(@, ret)]
    /\ pc' = "outer"
    /\ UNCHANGED <<endpoint_total, sheet, row_idx, ret, locals, history>>

\* finally: context.close() (which closes the pages the context still
\* holds); the attempt's value or exception reaches with_retries.
Finally ==
    /\ pc = "finally"
    /\ context_open' = FALSE
    /\ live_pages' = {}
    /\ wr' = [wr EXCEPT !["scrape"] = with_retries_handle(@, ret)]
    /\ pc' = "outer"
    /\ UNCHANGED <<endpoint_total, sheet, row_idx, ret, locals, history>>

\* ------------------------------------------------------------------------
\* main (cap.py 236-246)

\* with_retries(scrape_cap_points) returned: column B of today's row
WriteSheet ==
    /\ pc = "outer"
    /\ wr["scrape"].status = "returned"
    /\ sheet' = [sheet EXCEPT ![row_idx].b = wr["scrape"].out.val]
    /\ pc' = "done"
    /\ UNCHANGED <<endpoint_total, row_idx, wr, context_open, live_pages, ret, locals,
                   history>>

\* (variant: a fallback value is written when every attempt failed)
JobFails_Fallback ==
    /\ pc = "outer"
    /\ wr["scrape"].status = "raised"
    /\ sheet' = [sheet EXCEPT ![row_idx].b = 0]
    /\ pc' = "failed"
    /\ UNCHANGED <<endpoint_total, row_idx, wr, context_open, live_pages, ret,
                   locals, history>>

\* with_retries(scrape_cap_points) raised: the exception leaves main
JobFails ==
    /\ pc = "outer"
    /\ wr["scrape"].status = "raised"
    /\ pc' = "failed"
    /\ UNCHANGED <<endpoint_total, sheet, row_idx, wr, context_open, live_pages, ret,
                   locals, history>>

Next ==
    \/ ImportModule
    \/ StartAttempt
    \/ VerifyProxy
    \/ GetTotalPages
    \/ RetrySleepOver
    \/ VerifyReturns
    \/ InnerRaises
    \/ DiscoverReturns
    \/ StartBatch
    \/ DispatchChunk
    \/ PageRequest
    \/ PageSettled
    \/ PageQuery
    \/ PageText
    \/ PageDelayOver
    \/ GatherReturns
    \/ FoldOne
    \/ NextChunk
    \/ CloseWorkers
    \/ EndBatches
    \/ GateStep
    \/ Finally
    \/ WriteSheet
    \/ JobFails

Spec == Init /\ [][Next]_vars

\* The jobs of a single batch
InitFair ==
    /\ Init
    /\ endpoint_total <= BATCH_SIZE

\* Every awaited call returns or times out: the coroutine that can take a
\* step eventually takes one.
FairSpec == InitFair /\ [][Next]_vars /\ WF_vars(Next)

\* ------------------------------------------------------------------------
\* A job against an endpoint of ScenarioPages pages, ScenarioFailures of
\* which fail on every request; everything else works.

\* The pages that fail: every ninth page, counted down from the last
ScenarioFailing ==
    {ScenarioPages - 9 * k : k \in 0..(ScenarioFailures - 1)}

InitScenario ==
    /\ pc = "import"
    /\ endpoint_total = ScenarioPages
    /\ sheet \in InitialSheets
    /\ wr = [s \in Sites |-> IdleFrame]
    /\ body = EmptyBody
    /\ InitRest

\* get_total_pages reads pagination.total of the envelope
ScenarioDiscovery ==
    /\ GetTotalPages
    /\ wr'["discover"].out = Returned(ScenarioPages)

\* page_instance.goto of one task returns or raises: for a failing page
\* it returns another status than 200 or raises, for any other page it
\* returns the page.
ScenarioPageRequest ==
    /\ pc = "gather"
    /\ \E n \in 1..Len(tasks), kind \in {"status200", "http", "exception"} :
          /\ Awaiting(n, "goto")
          /\ kind = "status200" <=> tasks[n].page \notin ScenarioFailing
          /\ Advance(n, TaskGoto(tasks[n], kind), kind)
    /\ completion' = completion
    /\ TaskStepUnchanged

NextScenario ==
    \/ ImportModule
    \/ StartAttempt
    \/ VerifyProxy
    \/ ScenarioDiscovery
    \/ RetrySleepOver
    \/ VerifyReturns
    \/ DiscoverReturns
    \/ StartBatch
    \/ DispatchChunk
    \/ ScenarioPageRequest
    \/ PageSettled
    \/ PageFound
    \/ PageDecoded
    \/ PageDelayOver
    \/ GatherReturns
    \/ FoldOne
    \/ NextChunk
    \/ CloseWorkers
    \/ EndBatches
    \/ GateStep
    \/ Finally
    \/ JobFails

SpecScenario == InitScenario /\ [][NextScenario]_vars

\* ------------------------------------------------------------------------
\* A job against an endpoint of OrderPages pages, all in one chunk, where
\* any request may fail and the requests complete in any order; the order
\* in which the failing fetches finish is recorded in `completion`.

InitOrder ==
    /\ pc = "import"
    /\ endpoint_total = OrderPages
    /\ sheet = << >>
    /\ wr = [s \in Sites |-> IdleFrame]
    /\ body = EmptyBody
    /\ InitRest

\* get_total_pages reads pagination.total of the envelope
OrderDiscovery ==
    /\ GetTotalPages
    /\ wr'["discover"].out = Returned(OrderPages)

\* page_instance.goto of one task returns the page or another status, in
\* any order among the tasks of the chunk.
OrderPageRequest ==
    /\ pc = "gather"
    /\ \E n \in 1..Len(tasks), kind \in {"status200", "http"} :
          /\ Awaiting(n, "goto")
          /\ LET t == TaskGoto(tasks[n], kind)
             IN /\ Advance(n, t, kind)
                /\ completion' =
                      IF t.status = "done" /\ ~t.result.exc
                         /\ t.result.total = NoNumber
                      THEN Append(completion, t.page) ELSE completion
    /\ TaskStepUnchanged

NextOrder ==
    \/ ImportModule
    \/ StartAttempt
    \/ VerifyProxy
    \/ OrderDiscovery
    \/ VerifyReturns
    \/ DiscoverReturns
    \/ StartBatch
    \/ DispatchChunk
    \/ OrderPageRequest
    \/ PageSettled
    \/ PageFound
    \/ PageDecoded
    \/ PageDelayOver
    \/ GatherReturns
    \/ FoldOne
    \/ NextChunk
    \/ CloseWorkers
    \/ EndBatches
    \/ GateStep
    \/ Finally
    \/ RetrySleepOver
    \/ WriteSheet
    \/ JobFails

SpecOrder == InitOrder /\ [][NextOrder]_vars

\* ------------------------------------------------------------------------
\* The job is run again and again on the same date against the same sheet
\* (the scheduler starts `python cap.py` anew): each run is a new process,
\* so nothing but the sheet survives from one run to the next.

\* The sheet before the first run of the date: no row for today
SheetsBeforeToday == { << >>, << Row("yesterday", 3) >> }

InitRuns ==
    /\ pc = "import"
    /\ endpoint_total = 1
    /\ sheet \in SheetsBeforeToday
    /\ wr = [s \in Sites |-> IdleFrame]
    /\ body = EmptyBody
    /\ InitRest

\* The process of one run is over (value written, exception out of main,
\* or exit()), and the next run of the job starts.
Rerun ==
    /\ pc \in {"done", "failed", "exited"}
    /\ Len(job_log) < MaxRuns - 1
    /\ job_log' = Append(job_log, pc)
    /\ pc' = "import"
    /\ wr' = [s \in Sites |-> IdleFrame]
    /\ row_idx' = 0
    /\ total_pages' = NoNumber
    /\ grand_total' = 0
    /\ processed_pages' = 0
    /\ failed_pages' = << >>
    /\ batch_start' = 0
    /\ chunk_i' = 0
    /\ page_instances' = << >>
    /\ pages_opened' = 0
    /\ tasks' = << >>
    /\ results' = << >>
    /\ fold_k' = 0
    /\ ret' = NoOutcome
    /\ faulty' = 0
    /\ invoked' = << >>
    /\ folded_ok' = << >>
    /\ success_pages' = {}
    /\ skipped' = {}
    /\ recovered' = 0
    /\ second_failed' = FALSE
    /\ UNCHANGED <<endpoint_total, sheet, context_open, live_pages, call_log,
                   body, completion>>

NextRuns ==
    \/ Next
    \/ Rerun

SpecRuns == InitRuns /\ [][NextRuns]_vars

\* ------------------------------------------------------------------------
\* fetch_single_page on a page whose requests are all answered with
\* status 200 and one body, drawn from Bodies.

InitDecode ==
    /\ pc = "decode"
    /\ endpoint_total = 1
    /\ sheet = << >>
    /\ wr = [s \in Sites |-> IdleFrame]
    /\ body \in Bodies
    /\ InitRest

\* tasks.append(fetch_single_page(page_num, page_instance))
DecodeDispatch ==
    /\ pc = "decode"
    /\ tasks = << >>
    /\ tasks' = <<Task(1, 1)>>
    /\ UNCHANGED <<pc, endpoint_total, sheet, row_idx, wr, context_open,
                   live_pages, ret, total_pages, grand_total,
                   processed_pages, failed_pages, batch_start, chunk_i,
                   page_instances, pages_opened, results, fold_k, history>>

\* page_instance.goto of the task returns a response with status 200
DecodeRequest ==
    /\ pc = "decode"
    /\ tasks # << >>
    /\ Awaiting(1, "goto")
    /\ tasks' = << TaskGoto(tasks[1], "status200") >>
    /\ UNCHANGED <<pc, endpoint_total, sheet, row_idx, wr, context_open,
                   live_pages, ret, total_pages, grand_total,
                   processed_pages, failed_pages, batch_start, chunk_i,
                   page_instances, pages_opened, results, fold_k, history>>

\* The sleep(0.5) of the task is over
DecodeSettled ==
    /\ pc = "decode"
    /\ tasks # << >>
    /\ Awaiting(1, "settle")
    /\ tasks' = << TaskSettled(tasks[1]) >>
    /\ UNCHANGED <<pc, endpoint_total, sheet, row_idx, wr, context_open,
                   live_pages, ret, total_pages, grand_total,
                   processed_pages, failed_pages, batch_start, chunk_i,
                   page_instances, pages_opened, results, fold_k, history>>

\* query_selector('pre') of the task returns the element
DecodeFound ==
    /\ pc = "decode"
    /\ tasks # << >>
    /\ Awaiting(1, "query_selector")
    /\ tasks' = << TaskQuery(tasks[1], "pre") >>
    /\ UNCHANGED <<pc, endpoint_total, sheet, row_idx, wr, context_open,
                   live_pages, ret, total_pages, grand_total,
                   processed_pages, failed_pages, batch_start, chunk_i,
                   page_instances, pages_opened, results, fold_k, history>>

\* inner_text() of the task returns the body, and the task decodes it
DecodeProcess ==
    /\ pc = "decode"
    /\ tasks # << >>
    /\ Awaiting(1, "inner_text")
    /\ LET t == tasks[1]
           o == decode(t.page, t.attempt, body)
       IN tasks' = << IF o.op = "continue"
                      THEN [t EXCEPT !.phase = "delay", !.delays = @ + 1]
                      ELSE [t EXCEPT !.status = "done", !.phase = "over",
                                     !.result = o.result] >>
    /\ UNCHANGED <<pc, endpoint_total, sheet, row_idx, wr, context_open,
                   live_pages, ret, total_pages, grand_total,
                   processed_pages, failed_pages, batch_start, chunk_i,
                   page_instances, pages_opened, results, fold_k, history>>

\* The sleep(1) of the task is over: its second request goes out
DecodeDelayOver ==
    /\ pc = "decode"
    /\ tasks # << >>
    /\ Awaiting(1, "delay")
    /\ tasks' = << TaskRetry(tasks[1]) >>
    /\ UNCHANGED <<pc, endpoint_total, sheet, row_idx, wr, context_open,
                   live_pages, ret, total_pages, grand_total,
                   processed_pages, failed_pages, batch_start, chunk_i,
                   page_instances, pages_opened, results, fold_k, history>>

NextDecode ==
    \/ DecodeDispatch
    \/ DecodeRequest
    \/ DecodeSettled
    \/ DecodeFound
    \/ DecodeProcess
    \/ DecodeDelayOver

SpecDecode == InitDecode /\ [][NextDecode]_vars

\* ------------------------------------------------------------------------
\* with_retries on an arbitrary operation: every invocation returns a
\* value or raises one of a few exceptions.

FuncOutcomes ==
    {Returned(v) : v \in {0, 7}}
        \cup {Raised(Error(m)) : m \in {"error A", "error B", "error C", "error D"}}
        \cup {Raised(BadStr), Raised(CancelledError)}

\* One with_retries call, at any of the call sites, about to invoke func
InitRetry ==
    /\ pc = "with_retries"
    /\ endpoint_total = 0
    /\ sheet = << >>
    /\ \E s \in Sites :
          wr = [t \in Sites |-> IF t = s THEN with_retries_enter ELSE IdleFrame]
    /\ body = EmptyBody
    /\ InitRest

\* func is invoked and returns or raises
FuncInvoked ==
    /\ pc = "with_retries"
    /\ \E s \in Sites, r \in FuncOutcomes :
          /\ wr[s].status = "calling"
          /\ wr' = [wr EXCEPT ![s] =
                       with_retries_handle(with_retries_invoke(@), r)]
          /\ call_log' = Append(call_log, r)
    /\ UNCHANGED <<endpoint_total, pc, sheet, row_idx, context_open,
                   live_pages, ret, locals, faulty, invoked, folded_ok,
                   success_pages, skipped, recovered, second_failed,
                   job_log, body, completion>>

NextRetry ==
    \/ FuncInvoked
    \/ RetrySleepOver

SpecRetry == InitRetry /\ [][NextRetry]_vars

\* ------------------------------------------------------------------------
\* Properties

\* The run attempt went through its whole batch loop and through the gate.
GateDone ==
    /\ pc \in {"finally", "outer", "done", "failed"}
    /\ total_pages # NoNumber
    /\ batch_start > total_pages

\* The gate on every count f of failed pages out of T pages, T up to
\* MaxGatePages.
GateTable ==
    \A T \in 1..MaxGatePages : \A f \in 0..T :
        LET g == Gate(7, [n \in 1..f |-> n], T)
        IN /\ 10 * f > T => g = Raised(HighFailureRate(f, T))
           /\ 10 * f <= T => g = Returned(7)

\* C1: after all batches, with T = total_pages >= 1 and f failed pages,
\* the attempt raises the high-failure-rate error carrying (f, T) exactly
\* when 10 * f > T and returns grand_total otherwise, whatever grand_total.
C1_FailureRateGate ==
    /\ pc = "import" => GateTable
    /\ GateDone /\ total_pages >= 1 =>
          LET f == Len(failed_pages)
          IN /\ 10 * f > total_pages =>
                   ret = Raised(HighFailureRate(f, total_pages))
             /\ 10 * f <= total_pages => ret = Returned(grand_total)

\* An attempt that raised at the gate although grand_total > 0
C1_Witness ==
    /\ GateDone
    /\ ~ret.ok
    /\ ret.err.msg = "High failure rate"
    /\ grand_total > 0

\* C2: when the batch loop is over (the gate is about to be evaluated),
\* processed_pages + len(failed_pages) = total_pages.
C2_AllPagesCounted ==
    pc = "gate" => processed_pages + Len(failed_pages) = total_pages

\* C3: an attempt that returns returns the sum of the page sums of
\* exactly the pages whose outcome was Success, whatever the order in
\* which the fetches of a chunk completed.
C3_TotalIsSumOfSuccesses ==
    GateDone /\ ret.ok => ret.val = SumPages(success_pages)

\* An attempt that returned a total over some but not all of its pages
C3_Witness ==
    /\ GateDone
    /\ ret.ok
    /\ Cardinality(success_pages) >= 2
    /\ success_pages # 1..total_pages

\* The result being folded is a Success outcome
FoldingSuccess ==
    /\ pc = "fold"
    /\ fold_k <= Len(results)
    /\ ~results[fold_k].exc
    /\ results[fold_k].error = None
    /\ results[fold_k].total # NoNumber

\* Within one run attempt grand_total changes only in the fold of a
\* Success outcome, by that page's total, and no page is added twice.
GrandTotalChangesBySuccesses ==
    /\ [][wr'["scrape"].calls = wr["scrape"].calls
            /\ grand_total' # grand_total =>
               /\ FoldingSuccess
               /\ grand_total' = grand_total + results[fold_k].total]_vars
    /\ [](\A p \in DOMAIN folded_ok : folded_ok[p] <= 1)

\* Within one run attempt grand_total never decreases.
GrandTotalNeverDecreases ==
    [][wr'["scrape"].calls = wr["scrape"].calls =>
          grand_total' >= grand_total]_vars

\* C4: within one run attempt grand_total never decreases, changes only
\* in the fold of a Success outcome, and each page is added at most once.
\* (The fold of a page whose 'caps' fields sum to a negative number takes
\* grand_total down: page 2 of a two-page job takes it from 1 to -1.)
C4_GrandTotalGrowsBySuccesses ==
    /\ GrandTotalNeverDecreases
    /\ GrandTotalChangesBySuccesses

\* Round-robin assignment for every page count up to MaxGatePages: in
\* every chunk of every batch the pages get pairwise distinct workers.
AssignmentTable ==
    \A T \in 1..MaxGatePages :
      \A b \in {x \in 1..T : (x - 1) % BATCH_SIZE = 0} :
        LET pages == batch_pages(b, T)
            workers == [k \in 1..WorkerCount(pages) |-> k]
        IN \A i \in {x \in 0..(Len(pages) - 1) : x % MAX_CONCURRENT = 0} :
             LET chunk == Chunk(pages, i)
             IN \A m, n \in 1..Len(chunk) :
                  m # n => Assign(m - 1, workers) # Assign(n - 1, workers)

\* C5: no worker page runs fetch_single_page for two pages at a time.
C5_WorkerExclusive ==
    /\ pc = "import" => AssignmentTable
    /\ \A m, n \in 1..Len(tasks) :
          m # n /\ tasks[m].status = "running" /\ tasks[n].status = "running"
             => tasks[m].worker # tasks[n].worker

\* A chunk shorter than MAX_CONCURRENT with all its fetches in flight
C5_Witness ==
    /\ pc = "gather"
    /\ Len(tasks) > 1
    /\ Len(tasks) < MAX_CONCURRENT
    /\ \A n \in 1..Len(tasks) : tasks[n].status = "running"

\* A finished task returned a Failure outcome
IsFailure(t) ==
    t.status = "done" /\ ~t.result.exc /\ t.result.total = NoNumber

\* C6: fetch_single_page never makes more than two requests, and returns
\* a Failure outcome only after its second request has failed as well.
C6_FailureOnlyAfterRetry ==
    \A n \in 1..Len(tasks) :
        /\ tasks[n].requests <= PAGE_ATTEMPTS
        /\ IsFailure(tasks[n]) =>
              tasks[n].requests = PAGE_ATTEMPTS /\ tasks[n].delays = 1

\* C7: when no page's second request fails (every page succeeds at once
\* or on its retry), the batch loop ends with processed_pages = T,
\* failed_pages = [] and every page sum in grand_total.
C7_RetryMasksFirstFailures ==
    pc = "gate" /\ ~second_failed =>
        /\ processed_pages = total_pages
        /\ failed_pages = << >>
        /\ grand_total = SumPages(1..total_pages)

\* Number of times a page number occurs in failed_pages
FailedCount(p) == Cardinality({n \in 1..Len(failed_pages) : failed_pages[n] = p})

\* C8: per attempt every page gets one fetch_single_page call, which
\* returns a tuple and never raises, and the page is counted once, in
\* processed_pages or in failed_pages, when the attempt is over.
C8_OneOutcomePerPage ==
    /\ \A p \in DOMAIN invoked : invoked[p] <= 1
    /\ \A n \in 1..Len(tasks) : ~tasks[n].result.exc
    /\ pc \in {"finally", "outer", "done", "failed"} /\ total_pages # NoNumber =>
          \A p \in 1..total_pages :
              /\ invoked[p] = 1
              /\ folded_ok[p] + FailedCount(p) = 1

\* All elements of a sequence of outcomes are exceptions
AllRaised(log) == \A n \in 1..Len(log) : ~log[n].ok

\* The with_retries call that SpecRetry runs
ActiveFrame == wr[CHOOSE s \in Sites : wr[s].status # "idle"]

\* C9: with_retries invokes func at most MAX_RETRIES times, returns the
\* outcome of the first invocation that succeeds (invoking nothing after
\* it), sleeps after a failed invocation exactly when attempts remain and
\* then invokes func again, and after MAX_RETRIES failures raises the
\* exception of the last one.
C9_WithRetries ==
    LET fr == ActiveFrame
        n == Len(call_log)
    IN /\ fr.calls = n
       /\ n <= MAX_RETRIES
       /\ n > 0 => AllRaised(SubSeq(call_log, 1, n - 1))
       /\ fr.status = "calling" => AllRaised(call_log) /\ fr.sleeps = n
       /\ fr.status = "sleeping" =>
             AllRaised(call_log) /\ n < MAX_RETRIES /\ fr.sleeps = n
       /\ fr.status = "returned" =>
             call_log[n].ok /\ fr.out = call_log[n] /\ fr.sleeps = n - 1
       /\ fr.status = "raised" =>
             /\ AllRaised(call_log)
             /\ n = MAX_RETRIES
             /\ fr.sleeps = MAX_RETRIES - 1
             /\ fr.out = Raised(call_log[MAX_RETRIES].err)

\* C10: no worker page is opened and no fetch_single_page is dispatched
\* before get_total_pages has returned total_pages in the same attempt.
C10_DiscoveryFirst ==
    (\/ pages_opened > 0
     \/ page_instances # << >>
     \/ tasks # << >>
     \/ \E p \in DOMAIN invoked : invoked[p] > 0)
      => /\ total_pages # NoNumber
         /\ pc \notin {"import", "verify", "discover"}
         /\ wr["discover"].status = "idle"

\* A second attempt fetching pages, after its own discovery
C10_Witness ==
    /\ pc = "gather"
    /\ wr["scrape"].attempt = 1
    /\ \E n \in 1..Len(tasks) : tasks[n].status = "done"

\* Batch and chunk (both counted from 0) that the batch plan puts a page in
PageBatch(p) == (p - 1) \div BATCH_SIZE
PageChunk(p) == ((p - 1) % BATCH_SIZE) \div MAX_CONCURRENT
Earlier(p, q) ==
    \/ PageBatch(p) < PageBatch(q)
    \/ PageBatch(p) = PageBatch(q) /\ PageChunk(p) < PageChunk(q)

\* The position of page p's chunk in the order of dispatch: Earlier(p, q)
\* is ChunkKey(p) < ChunkKey(q)
ChunkKey(p) ==
    PageBatch(p) * ((BATCH_SIZE + MAX_CONCURRENT - 1) \div MAX_CONCURRENT)
    + PageChunk(p)

\* The fold has gone over the result of page p in this attempt
Folded(p) ==
    folded_ok[p] + FailedCount(p) + (IF p \in skipped THEN 1 ELSE 0) >= 1

\* C11: a page is dispatched only when every page of the earlier chunks
\* and batches was fetched and folded, nothing is being folded while a
\* chunk is in flight, and the worker pages that are open are those of the
\* current batch only (the earlier batches' workers are closed).
C11_BatchesSequential ==
    /\ LET dispatched == {ChunkKey(q) :
                             q \in {r \in DOMAIN invoked : invoked[r] > 0}}
       IN \A p \in DOMAIN invoked :
             (\E k \in dispatched : ChunkKey(p) < k)
                => invoked[p] = 1 /\ Folded(p)
    /\ tasks # << >> => results = << >>
    /\ live_pages \subseteq Range(page_instances)
    /\ live_pages # {} =>
          \A p \in DOMAIN invoked :
             PageBatch(p) < PageBatch(batch_start) => Folded(p)

\* The second batch in flight, one of its fetches in its second attempt,
\* after every page of the first batch was fetched and folded
C11_Witness ==
    /\ pc = "gather"
    /\ batch_start > BATCH_SIZE
    /\ processed_pages = BATCH_SIZE
    /\ live_pages # {}
    /\ \E n \in 1..Len(tasks) : tasks[n].attempt = 1

\* The pages of a sequence are the consecutive numbers from..to
IsRange(pages, from, to) ==
    /\ Len(pages) = to - from + 1
    /\ \A n \in 1..Len(pages) : pages[n] = from + n - 1

\* The chunks of the plan for T pages, as <<batch_start, i>>
PlannedChunks(T) ==
    UNION {{<<b, i>> : i \in ChunkStarts(batch_pages(b, T))} :
              b \in BatchStarts(T)}

\* The batch plan for every page count up to MaxGatePages: the k-th batch
\* is 1+18k .. min(18k+18, T), a batch has 1..18 pages and min(6, length)
\* workers, a chunk 1..6 pages, and every page is in one chunk of one batch.
PlanTable ==
    \A T \in 1..MaxGatePages :
      /\ \A b \in BatchStarts(T) :
            LET pages == batch_pages(b, T)
                k == (b - 1) \div BATCH_SIZE
            IN /\ IsRange(pages, 1 + BATCH_SIZE * k,
                           Min(BATCH_SIZE * k + BATCH_SIZE, T))
               /\ Len(pages) \in 1..BATCH_SIZE
               /\ WorkerCount(pages) \in 1..MAX_CONCURRENT
               /\ WorkerCount(pages) < MAX_CONCURRENT
                     => WorkerCount(pages) = Len(pages)
               /\ \A i \in ChunkStarts(pages) :
                     Len(Chunk(pages, i)) \in 1..MAX_CONCURRENT
      /\ \A p \in 1..T :
            Cardinality({bi \in PlannedChunks(T) :
                           p \in Range(Chunk(batch_pages(bi[1], T), bi[2]))})
              = 1

\* The plan for 40 pages
PlanForForty ==
    /\ BatchStarts(40) = {1, 19, 37}
    /\ IsRange(batch_pages(1, 40), 1, 18)
    /\ IsRange(batch_pages(19, 40), 19, 36)
    /\ batch_pages(37, 40) = <<37, 38, 39, 40>>
    /\ ChunkStarts(batch_pages(1, 40)) = {0, 6, 12}
    /\ \A i \in {0, 6, 12} : Len(Chunk(batch_pages(1, 40), i)) = 6
    /\ ChunkStarts(batch_pages(37, 40)) = {0}
    /\ Chunk(batch_pages(37, 40), 0) = <<37, 38, 39, 40>>
    /\ WorkerCount(batch_pages(37, 40)) = 4

\* C12: the batches are the consecutive ranges 1+18k .. min(18k+18, T),
\* they and their chunks partition 1..T, a batch has at most 18 pages, a
\* chunk at most 6, a batch opens min(6, batch length) workers, and the
\* run dispatches exactly this plan.
C12_BatchPlan ==
    /\ pc = "import" => PlanTable /\ PlanForForty
    /\ pc \in {"chunk", "gather", "fold"} =>
          /\ batch_start \in BatchStarts(total_pages)
          /\ Len(page_instances) =
                Min(MAX_CONCURRENT, Len(batch_pages(batch_start, total_pages)))
    /\ pc = "gather" =>
          LET pages == batch_pages(batch_start, total_pages)
          IN /\ chunk_i \in ChunkStarts(pages)
             /\ [n \in 1..Len(tasks) |-> tasks[n].page] = Chunk(pages, chunk_i)
    /\ pc = "gate" => \A p \in 1..total_pages : invoked[p] = 1

\* The second chunk of a 7-page job: fewer pages than worker pages
C12_Witness ==
    /\ pc = "gather"
    /\ chunk_i = MAX_CONCURRENT
    /\ Len(tasks) < Len(page_instances)
    /\ Len(page_instances) = MAX_CONCURRENT

\* The attempt is over (its try block was left)
AttemptOver == pc \in {"finally", "outer", "done", "failed"}

\* Every page of the attempt was fetched with a Success outcome
AllPagesSucceeded ==
    total_pages # NoNumber /\ success_pages = 1..total_pages

\* C13: for every page count T >= 0, an attempt all of whose page fetches
\* succeed ends with processed_pages = T and failed_pages = [] and
\* returns (grand_total) without error; with T = 0 no batch runs.
C13_AllSucceed ==
    /\ AttemptOver /\ AllPagesSucceeded =>
          /\ processed_pages = total_pages
          /\ failed_pages = << >>
          /\ ret = Returned(grand_total)
    /\ AttemptOver /\ total_pages = 0 =>
          pages_opened = 0 /\ ret = Returned(0)

\* A job of more than one batch whose pages all succeeded
C13_Witness ==
    /\ AttemptOver
    /\ AllPagesSucceeded
    /\ total_pages > BATCH_SIZE
    /\ processed_pages = total_pages

\* A job of no pages that returned
ZeroPagesReturned == AttemptOver /\ total_pages = 0 /\ ret.ok

\* Column B of row n of a sheet; an absent row has an empty cell
CellB(sh, n) == IF n \in 1..Len(sh) THEN sh[n].b ELSE NoNumber

\* C14: column B is written only by the step that ends a job whose
\* with_retries(scrape_cap_points) returned, once (no step follows it),
\* with the grand_total of the attempt that returned; a job whose three
\* attempts failed ends with the last attempt's exception and an empty cell.
C14_ValueWrittenOnce ==
    /\ [][(\E n \in 1..Len(sheet') : CellB(sheet', n) # CellB(sheet, n)) =>
             /\ pc = "outer" /\ pc' = "done"
             /\ wr["scrape"].out = Returned(grand_total)
             /\ sheet' = [sheet EXCEPT ![row_idx].b = grand_total]]_vars
    /\ [][pc \notin {"done", "failed"}]_vars
    /\ [](pc = "done" =>
             /\ ret = Returned(grand_total)
             /\ sheet[row_idx] = Row("today", grand_total))
    /\ [](pc = "failed" =>
             /\ wr["scrape"].calls = MAX_RETRIES
             /\ ~ret.ok
             /\ wr["scrape"].out = ret
             /\ sheet[row_idx] = Row("today", NoNumber))

\* A job that wrote the total of its second or third attempt
C14_Witness ==
    /\ pc = "done"
    /\ wr["scrape"].calls > 1
    /\ sheet[row_idx].b > 0
    /\ sheet[row_idx].b = grand_total

\* A job whose three attempts failed
JobFailed == pc = "failed" /\ sheet[row_idx].b = NoNumber

\* The first row keyed by today's date has a value in column B
TodayFilled(sh) ==
    \E n \in 1..Len(sh) :
        /\ sh[n].a = "today"
        /\ \A m \in 1..(n - 1) : sh[m].a # "today"
        /\ sh[n].b # NoNumber

\* No browser context, worker page, fetch or with_retries call so far
NothingStarted ==
    /\ ~context_open
    /\ pages_opened = 0
    /\ live_pages = {}
    /\ tasks = << >>
    /\ \A s \in Sites : wr[s] = IdleFrame

\* C15: a job that starts on a sheet whose row for today has a value in
\* column B exits at once: no context is opened, nothing is fetched, the
\* sheet is left as it was and nothing runs afterwards; and the sheet a
\* successful job leaves is such a sheet.
C15_FilledRowExits ==
    /\ [][pc = "import" /\ TodayFilled(sheet) =>
             pc' = "exited" /\ sheet' = sheet /\ NothingStarted']_vars
    /\ [][pc # "exited"]_vars
    /\ [](pc = "exited" =>
             TodayFilled(sheet) /\ sheet \in InitialSheets /\ NothingStarted)
    /\ [](pc = "done" => TodayFilled(sheet))

\* The job exited on a filled row
C15_Witness ==
    /\ pc = "exited"
    /\ row_idx > 0
    /\ sheet[row_idx].b # NoNumber

\* C16 as stated: get_total_pages is invoked once per run attempt and its
\* failure leaves the attempt with no wait and no second invocation.
C16_DiscoveryNotRetried ==
    /\ wr["discover"].calls <= 1
    /\ wr["discover"].status # "sleeping"

\* C16, amended: inside a run attempt get_total_pages is invoked by its
\* own with_retries, up to MAX_RETRIES times with a sleep between the
\* invocations; a failure leaves the attempt only as the exception that
\* this with_retries ends with (after MAX_RETRIES failed invocations the
\* last one's; earlier only when str() of the caught exception raises),
\* with no page planned, opened or dispatched, and reaches the
\* with_retries of scrape_cap_points.
C16_DiscoveryRetriedThenEscalates ==
    /\ [](/\ wr["discover"].calls <= MAX_RETRIES
          /\ wr["discover"].status = "sleeping" =>
                /\ wr["discover"].calls < MAX_RETRIES
                /\ ~StrRaises(wr["discover"].last_exception)
          /\ wr["discover"].status = "raised" =>
                /\ wr["discover"].sleeps = wr["discover"].calls - 1
                /\ IF StrRaises(wr["discover"].last_exception)
                   THEN wr["discover"].out = Raised(StrFailed)
                   ELSE /\ wr["discover"].calls = MAX_RETRIES
                        /\ wr["discover"].out =
                              Raised(wr["discover"].last_exception))
    /\ [][pc = "discover" /\ pc' # "discover"
             /\ wr["discover"].status # "returned" =>
               /\ wr["discover"].status = "raised"
               /\ pc' = "finally"
               /\ ret' = wr["discover"].out
               /\ total_pages' = NoNumber
               /\ pages_opened' = 0
               /\ tasks' = << >>]_vars
    /\ [][pc = "finally" /\ ~ret.ok =>
               /\ pc' = "outer"
               /\ wr'["scrape"].status \in {"sleeping", "raised"}
               /\ wr'["scrape"].last_exception = ret.err]_vars

\* The third invocation of get_total_pages in one attempt has raised
C16_Witness ==
    /\ pc = "discover"
    /\ wr["discover"].status = "raised"
    /\ wr["discover"].calls = MAX_RETRIES
    /\ wr["discover"].sleeps = MAX_RETRIES - 1

\* pc is inside the batch loop
InBatchLoop == pc \in {"batch", "chunk", "gather", "fold"}

\* C17: an attempt ends with the high-failure-rate error only when every
\* page of 1..total_pages was dispatched once and folded and no fetch is
\* pending; the batch loop is left only at its end (for the gate) or by
\* the TypeError of the fold, never because of the failures counted so far.
C17_GateAfterAllBatches ==
    /\ [](ret.err.msg = "High failure rate" =>
             /\ batch_start > total_pages
             /\ tasks = << >>
             /\ \A p \in 1..total_pages : invoked[p] = 1 /\ Folded(p))
    /\ [][InBatchLoop /\ ~InBatchLoop' =>
             \/ /\ pc' = "gate"
                /\ batch_start > total_pages
                /\ \A p \in 1..total_pages : invoked[p] = 1 /\ Folded(p)
             \/ pc' = "finally" /\ ret' = Raised(TypeError)]_vars

\* The error was raised for a failure of the first chunk, after a later
\* chunk was fetched and folded as well
C17_Witness ==
    /\ pc = "finally"
    /\ ret.err.msg = "High failure rate"
    /\ total_pages > MAX_CONCURRENT
    /\ failed_pages # << >>
    /\ failed_pages[1] <= MAX_CONCURRENT
    /\ processed_pages = total_pages - 1

\* C18: the job terminates, in done or failed unless it never started a
\* run (the exit on a filled row); a run
\* attempt is started only while fewer than MAX_RETRIES were made, and
\* starts over before the proxy check and discovery; failed is final and
\* is entered after MAX_RETRIES attempts; a page gets at most two
\* requests in one fetch_single_page call and one call per attempt.
C18_Terminates ==
    /\ <>(pc \in {"done", "failed", "exited"})
    /\ [][pc \notin {"done", "failed", "exited"}]_vars
    /\ [](/\ pc = "exited" => wr["scrape"] = IdleFrame
          /\ wr["scrape"].calls <= MAX_RETRIES
          /\ pc = "failed" => wr["scrape"].calls = MAX_RETRIES
          /\ \A p \in DOMAIN invoked : invoked[p] <= 1
          /\ \A n \in 1..Len(tasks) : tasks[n].requests <= PAGE_ATTEMPTS)
    /\ [][wr'["scrape"].calls # wr["scrape"].calls =>
             /\ wr["scrape"].calls < MAX_RETRIES
             /\ wr'["scrape"].calls = wr["scrape"].calls + 1
             /\ pc' = "verify"
             /\ total_pages' = NoNumber]_vars

\* The third attempt failed and the job is over
C18_Witness ==
    /\ pc = "failed"
    /\ wr["scrape"].calls = MAX_RETRIES
    /\ wr["scrape"].status = "raised"
    /\ total_pages # NoNumber

\* C19: with ScenarioPages = 100 pages of which ScenarioFailures = 11
\* fail for good, the batch loop ends with those 11 pages failed, the
\* attempt raises the high-failure-rate error carrying (11, 100), and the
\* with_retries of scrape_cap_points, having caught it with attempts
\* left, goes on to one more attempt.
C19_ElevenOfHundred ==
    /\ pc = "gate" =>
          /\ total_pages = ScenarioPages
          /\ Range(failed_pages) = ScenarioFailing
          /\ Len(failed_pages) = ScenarioFailures
          /\ processed_pages = ScenarioPages - ScenarioFailures
    /\ pc = "finally" =>
          ret = Raised(HighFailureRate(ScenarioFailures, ScenarioPages))
    /\ pc = "outer" /\ wr["scrape"].calls > 0 =>
          /\ wr["scrape"].last_exception =
                HighFailureRate(ScenarioFailures, ScenarioPages)
          /\ wr["scrape"].calls < MAX_RETRIES =>
                wr["scrape"].status \in {"sleeping", "calling"}
          /\ wr["scrape"].calls = MAX_RETRIES =>
                wr["scrape"].status = "raised"
    /\ wr["scrape"].calls > 1 /\ pc \notin {"outer", "failed"} =>
          wr["scrape"].last_exception =
             HighFailureRate(ScenarioFailures, ScenarioPages)

\* The second attempt is fetching pages after the first failed at the gate
C19_Witness ==
    /\ pc = "gather"
    /\ wr["scrape"].calls = 2
    /\ wr["scrape"].last_exception =
          HighFailureRate(ScenarioFailures, ScenarioPages)
    /\ total_pages = ScenarioPages

\* Some fetch_single_page of the current chunk has not finished
FetchInFlight == \E n \in 1..Len(tasks) : tasks[n].status = "running"

RunState == <<grand_total, processed_pages, failed_pages>>

\* C20: no step taken while a fetch of the chunk is in flight changes
\* grand_total, processed_pages or failed_pages; inside the batch loop
\* they change only in a fold step, and a fold step runs only when no
\* fetch is in flight.
C20_BarrierThenFold ==
    /\ [][FetchInFlight => RunState' = RunState]_vars
    /\ [][RunState' # RunState =>
             \/ pc = "fold" /\ ~FetchInFlight
             \/ pc \in {"outer", "discover"}]_vars
    /\ [](FetchInFlight => pc = "gather" /\ results = << >>)

\* A failed and a successful fetch are waiting at the barrier, unfolded,
\* while another fetch of the chunk is in flight
C20_Witness ==
    /\ FetchInFlight
    /\ \E n \in 1..Len(tasks) : IsFailure(tasks[n])
    /\ \E n \in 1..Len(tasks) :
          tasks[n].status = "done" /\ tasks[n].result.total # NoNumber
    /\ failed_pages = << >>
    /\ grand_total = 0

\* C21: at most MAX_CONCURRENT worker pages are open at any time.
C21_LiveWorkersBounded ==
    /\ Cardinality(live_pages) <= MAX_CONCURRENT
    /\ Len(page_instances) <= MAX_CONCURRENT

\* A full pool is open while the second chunk of a batch is in flight
C21_Witness ==
    /\ pc = "gather"
    /\ chunk_i > 0
    /\ Cardinality(live_pages) = MAX_CONCURRENT
    /\ pages_opened = MAX_CONCURRENT

\* C22: outside the body of a batch (at the head of the batch loop, at
\* the gate, and once the try block was left, by return or by exception)
\* no worker page of the attempt is open.
C22_WorkersClosedWithBatch ==
    pc \in {"batch", "gate", "finally", "outer", "done", "failed"}
        => live_pages = {}

\* C23: the page count that get_total_pages hands to the scheduler is a
\* positive integer.
C23_PositivePageCount ==
    /\ wr["discover"].status = "returned" => wr["discover"].out.val >= 1
    /\ total_pages # NoNumber => total_pages >= 1

\* The page sum when a record that int() rejects counts as 0
RECURSIVE TolerantSum(_)
TolerantSum(entries) ==
    IF entries = << >> THEN 0
    ELSE (IF Head(entries).kind \in {"int", "digits"}
          THEN Head(entries).val ELSE 0) + TolerantSum(Tail(entries))

\* C24: a page whose body has 'entries' succeeds at its first request
\* with the sum of its records, a record whose caps is missing or is not
\* coercible counting as 0; a body without 'entries' fails the page.
C24_BadRecordCountsZero ==
    \A n \in 1..Len(tasks) :
        tasks[n].status = "done" =>
            IF body.has_entries
            THEN /\ tasks[n].result = Result(tasks[n].page,
                                            TolerantSum(body.entries), None)
                 /\ tasks[n].requests = 1
            ELSE IsFailure(tasks[n])

\* C25 (as stated): when the fold is over, failed_pages lists the failed
\* pages in the order in which their fetches completed.
C25_FailedPagesInCompletionOrder ==
    pc = "gate" => failed_pages = completion

\* C25 (amended): failed_pages is in ascending page-index order whatever
\* the completion order was; when the fold is over it holds exactly the
\* pages whose fetches failed.
C25_FailedPagesInPageOrder ==
    /\ \A i, j \in 1..Len(failed_pages) :
           i < j => failed_pages[i] < failed_pages[j]
    /\ pc = "gate" => Range(failed_pages) = Range(completion)

C25_Witness ==
    /\ pc = "gate"
    /\ Len(completion) = 2
    /\ completion[1] > completion[2]
    /\ failed_pages = <<completion[2], completion[1]>>

\* The pages whose total was added to grand_total in this attempt
AddedPages == {p \in DOMAIN folded_ok : folded_ok[p] > 0}

\* C26: an attempt of scrape_cap_points starts from a fresh run state and
\* a fresh browser context, so nothing of an earlier attempt is carried
\* over, and the value written to the sheet is the total of the pages
\* fetched in the attempt that returned.
C26_FreshAttempt ==
    /\ pc \in {"verify", "discover"} =>
          /\ RunState = <<0, 0, << >> >>
          /\ tasks = << >> /\ results = << >>
          /\ context_open /\ live_pages = {} /\ pages_opened = 0
    /\ pc \in {"batch", "chunk", "gather", "fold", "gate"} =>
          /\ grand_total = SumPages(AddedPages)
          /\ processed_pages = Cardinality(AddedPages)
          /\ AddedPages \subseteq success_pages
          /\ Range(failed_pages) \cap success_pages = {}
    /\ pc = "done" =>
          /\ CellB(sheet, row_idx) = SumPages(success_pages)
          /\ success_pages \subseteq 1..total_pages

\* The job ends with a value after an attempt that failed at the gate
C26_Witness ==
    /\ pc = "done"
    /\ wr["scrape"].calls = 2
    /\ wr["scrape"].last_exception.msg = "High failure rate"
    /\ total_pages > 1
    /\ CellB(sheet, row_idx) = SumPages(1..total_pages)

\* C27: the browser context of an attempt is open exactly while the
\* attempt runs: whichever way the attempt ends, value or exception, the
\* context and every page in it are closed before with_retries goes on, so
\* no context is open between attempts or after the job.
C27_ContextClosedOnEveryExit ==
    /\ pc \in {"import", "outer", "done", "failed", "exited"} =>
          ~context_open /\ live_pages = {}
    /\ pc \in {"verify", "discover", "batch", "chunk", "gather", "fold",
                "gate", "finally"} => context_open

\* An attempt ended by an error raised inside the batch loop, with another
\* attempt to come
C27_Witness ==
    /\ pc = "outer"
    /\ ret = Raised(TypeError)
    /\ pages_opened > 0
    /\ wr["scrape"].status = "sleeping"
    /\ ~context_open

\* C28: a result whose page total is None is folded as a failure, i.e. its
\* page is appended to failed_pages and nothing is added to grand_total,
\* whatever its reason is, the empty string included; the fold never
\* raises.
C28_NoneTotalIsFailure ==
    /\ ret # Raised(TypeError)
    /\ \A n \in 1..Len(results) :
          (pc = "fold" /\ n < fold_k /\ ~results[n].exc
             /\ results[n].total = NoNumber)
          => /\ FailedCount(results[n].page) = 1
             /\ folded_ok[results[n].page] = 0

\* The rows of the sheet whose date key is today's
TodayRows == {n \in 1..Len(sheet) : sheet[n].a = "today"}

\* How many of the runs so far wrote the day's value
RunsThatWrote ==
    Cardinality({n \in 1..Len(job_log) : job_log[n] = "done"})
    + (IF pc = "done" THEN 1 ELSE 0)

\* C29: over any sequence of runs of the job on one date: today's row is
\* there before anything is fetched, a failed run leaves it with an empty
\* value, a later run finds it and works on the same index without
\* appending, so the sheet has at most one row for today and at most one
\* run wrote the value.
C29_OneRowOneWrite ==
    /\ Cardinality(TodayRows) <= 1
    /\ RunsThatWrote <= 1
    /\ pc # "import" => TodayRows = {row_idx}
    /\ job_log # << >> => TodayRows # {}
    /\ pc = "failed" => sheet[row_idx] = Row("today", NoNumber)
    /\ (pc = "failed" \/ (job_log # << >> /\ RunsThatWrote = 0)) =>
          \A n \in TodayRows : sheet[n].b = NoNumber
    /\ RunsThatWrote = 1 => \A n \in TodayRows : sheet[n].b # NoNumber
    /\ \E before \in SheetsBeforeToday :
          /\ Len(sheet) <= Len(before) + 1
          /\ \A n \in 1..Len(before) : sheet[n] = before[n]

\* The third run finds the value that the second run wrote into the row
\* that the first, failed run had created
C29_Witness ==
    /\ job_log = <<"failed", "done">>
    /\ pc = "exited"
    /\ Len(sheet) = 2
    /\ sheet[1] = Row("yesterday", 3)
    /\ row_idx = 2
    /\ sheet[2].b = SumPages(1..endpoint_total)

====
